---------------------------- MODULE Spec2Model ----------------------------
(***************************************************************************)
(* A model of the playback queue of kushi-queue (src/src/lib.rs).          *)
(*                                                                         *)
(* The state is the Queue struct: the pending sequence `items`, the        *)
(* history `played` and the reserved flag `loop_` (the reserved `shuffle`  *)
(* field is never read nor written by any method and is left out).  Each   *)
(* public method is one operator from the queue before the call to the     *)
(* queue after it together with the value returned, and one action that    *)
(* applies the operator.  A Rust panic (unimplemented!(), todo!(), an      *)
(* index out of range, an underflowing usize subtraction) is the result    *)
(* tag "Panic"; the sequences are then those at the point of the panic     *)
(* and no further call is made on the queue.                               *)
(*                                                                         *)
(* Besides the struct, the state holds the record of the call in progress: *)
(* its name, its arguments, its result and the two sequences as they were  *)
(* before it.  The record is dropped when the caller takes the result      *)
(* (action Return), so `op` is the caller's position: "idle" between two   *)
(* calls, the method's name right after one.                               *)
(*                                                                         *)
(* Vec indices are 0-based in the source and in every operator below that  *)
(* takes an index; TLA+ sequences are 1-based, so index i is s[i + 1].     *)
(***************************************************************************)
EXTENDS Integers, Sequences, FiniteSets, TLC

\* Bounds of the model.
MaxLen == 3        \* Len(items) + Len(played) never exceeds this
MaxBatch == 2      \* longest batch handed to add_multi / add_multi_next
MaxLimit == 2      \* largest limit handed to check_played

\* The payloads: QueueItemType<T, U> with two singular items and one group.
Single(t) == [kind |-> "Single", val |-> t]
Multi(u) == [kind |-> "Multi", val |-> u]
QueueItemType == {Single("a"), Single("b"), Multi("g")}

\* Option<L>.  The location is opaque to the queue, which only copies it from
\* the caller's argument into the entry, so callers here pass a single value.
Sources == {"Some"}

\* enum QueueState.  No method ever assigns Played or First.
QueueState == {"Played", "First", "AddHere", "NoState"}

\* struct QueueItem.
QueueItem(item, state, source, by_human) ==
    [item |-> item, state |-> state, source |-> source, by_human |-> by_human]

\* QueueItem::from_item_type
from_item_type(item, source) == QueueItem(item, "NoState", source, FALSE)

VARIABLES items, played, loop_, op, args, ret, pre_items, pre_played

vars == <<items, played, loop_, op, args, ret, pre_items, pre_played>>

-----------------------------------------------------------------------------
(* Vec<T> primitives, with 0-based indices.                                *)

\* Vec::get(i).is_some()
HasIndex(s, i) == i >= 0 /\ i < Len(s)

\* Vec::insert(i, x); the caller guarantees i <= len.
VecInsert(s, i, x) == SubSeq(s, 1, i) \o <<x>> \o SubSeq(s, i + 1, Len(s))

\* Vec::remove(i): the vector without the element at i.
VecRemove(s, i) == SubSeq(s, 1, i) \o SubSeq(s, i + 2, Len(s))

\* s[i].state = st
SetState(s, i, st) == [s EXCEPT ![i + 1].state = st]

\* What a call leaves behind and returns.
Result(its, pl, tag, val) ==
    [items |-> its, played |-> pl, ret |-> [tag |-> tag, val |-> val]]


-----------------------------------------------------------------------------
(* Mutation operations.                                                    *)

\* Queue::has_addhere
has_addhere(its) == \E k \in 1..Len(its) : its[k].state = "AddHere"

\* A faulty variant of AnchorIndex: the scan keeps the first AddHere entry
\* it meets instead of the last.
AnchorIndex_First(its) ==
    LET hits == {j \in 0..(Len(its) - 1) : its[j + 1].state = "AddHere"}
    IN  IF hits = {} THEN 0 ELSE CHOOSE j \in hits : \A k \in hits : j <= k

\* The value of `i` after the scan of add_item / add_multi: the index of the
\* last entry found with state AddHere, 0 when there is none.
AnchorIndex(its) ==
    LET hits == {j \in 0..(Len(its) - 1) : its[j + 1].state = "AddHere"}
    IN  IF hits = {} THEN 0 ELSE CHOOSE j \in hits : \A k \in hits : k <= j

\* The vector the scan of add_item / add_multi collects: every AddHere entry
\* reset to NoState.
ClearAnchors(its) ==
    [k \in 1..Len(its) |->
        IF its[k].state = "AddHere" THEN [its[k] EXCEPT !.state = "NoState"]
        ELSE its[k]]

\* Queue::add_item
add_item(its, pl, item, source, by_human) ==
    LET i == AnchorIndex(its)
        cleared == ClearAnchors(its)
        at == i + (IF cleared = <<>> THEN 0 ELSE 1)
    IN  Result(VecInsert(cleared, at, QueueItem(item, "AddHere", source, by_human)),
               pl, "Unit", <<>>)

\* A faulty variant of NextIsAnchor: the has_addhere test is left out, so the
\* new entry is an anchor only when index 1 is free.
NextIsAnchor_NoScan(its) == ~HasIndex(its, 1) \/ its = <<>>

\* The anchor condition of add_item_next / add_multi_next.
NextIsAnchor(its) ==
    (~HasIndex(its, 1) \/ (~has_addhere(its) /\ HasIndex(its, 1))) \/ its = <<>>

\* Queue::add_item_next
add_item_next(its, pl, item, source) ==
    LET empty == its = <<>>
        state == IF NextIsAnchor(its) THEN "AddHere" ELSE "NoState"
    IN  Result(VecInsert(its, IF empty THEN 0 ELSE 1,
                         QueueItem(item, state, source, TRUE)),
               pl, "Unit", <<>>)

RECURSIVE Reverse(_)
\* Iterator::rev
Reverse(s) == IF s = <<>> THEN <<>> ELSE Append(Reverse(Tail(s)), Head(s))

RECURSIVE InsertEach(_, _, _)
\* The insertion loop of add_multi / add_multi_next: every element of xs, in
\* the order of xs, is inserted at the same index.
InsertEach(s, at, xs) ==
    IF xs = <<>> THEN s
    ELSE InsertEach(VecInsert(s, at, Head(xs)), at, Tail(xs))

\* The batch as NoState entries.
BatchEntries(batch, source, by_human) ==
    [k \in 1..Len(batch) |-> QueueItem(batch[k], "NoState", source, by_human)]

\* A faulty variant of AddMultiOrder: the batch is walked without .rev().
AddMultiOrder_Forward(xs) == xs

\* The order in which add_multi walks its batch.
AddMultiOrder(xs) == Reverse(xs)

\* Queue::add_multi
add_multi(its, pl, batch, source, by_human) ==
    LET i == AnchorIndex(its)
        cleared == ClearAnchors(its)
        empty == cleared = <<>>
        len == Len(batch)
        filled == InsertEach(cleared, i + (IF empty THEN 0 ELSE 1),
                             AddMultiOrder(BatchEntries(batch, source, by_human)))
        mark == i + len - (IF empty THEN 1 ELSE 0)
    IN  IF ~HasIndex(filled, mark) THEN Result(filled, pl, "Panic", <<>>)
        ELSE Result(SetState(filled, mark, "AddHere"), pl, "Unit", <<>>)

\* The order in which add_multi_next walks its batch.
AddMultiNextOrder(xs) == xs

\* Queue::add_multi_next
add_multi_next(its, pl, batch, source) ==
    LET empty == its = <<>>
        add_here == NextIsAnchor(its)
        len == Len(batch)
        filled == InsertEach(its, IF empty THEN 0 ELSE 1,
                             AddMultiNextOrder(BatchEntries(batch, source, TRUE)))
        mark == len - (IF empty THEN 1 ELSE 0)
    IN  IF ~add_here THEN Result(filled, pl, "Unit", <<>>)
        ELSE IF ~HasIndex(filled, mark) THEN Result(filled, pl, "Panic", <<>>)
        ELSE Result(SetState(filled, mark, "AddHere"), pl, "Unit", <<>>)

\* A faulty variant of remove_item: the bounds test admits index == len, where
\* Vec::remove panics.
remove_item_OffByOne(its, pl, remove_index) ==
    IF remove_index < Len(its)
    THEN LET handed == IF HasIndex(its, remove_index + 1)
                       THEN SetState(its, remove_index + 1, its[remove_index + 1].state)
                       ELSE its
         IN  Result(VecRemove(handed, remove_index), pl, "Ok", <<handed[remove_index + 1]>>)
    ELSE IF remove_index = Len(its) THEN Result(its, pl, "Panic", <<>>)
    ELSE Result(its, pl, "EmptyQueue", <<>>)

\* Queue::remove_item
remove_item(its, pl, remove_index) ==
    IF remove_index < Len(its)
    THEN LET handed == IF HasIndex(its, remove_index + 1)
                       THEN SetState(its, remove_index + 1, its[remove_index + 1].state)
                       ELSE its
         IN  Result(VecRemove(handed, remove_index), pl, "Ok", <<handed[remove_index + 1]>>)
    ELSE Result(its, pl, "EmptyQueue", <<>>)

\* A faulty variant of InsertRefused: an index one past the end is refused.
InsertRefused_PastEnd(its, index) == ~HasIndex(its, index) /\ index > 0

\* The bounds test of insert: TRUE when the call is refused.
InsertRefused(its, index) ==
    ~HasIndex(its, index) /\ index > 0 /\ ~HasIndex(its, index - 1)

\* A faulty variant of insert: the anchors are cleared before the bounds test.
insert_ClearsFirst(its, pl, index, new_item, source, addhere) ==
    LET swept == IF addhere THEN ClearAnchors(its) ELSE its
    IN  IF InsertRefused(swept, index)
        THEN Result(swept, pl, "OutOfBounds", <<index, Len(swept)>>)
        ELSE Result(VecInsert(swept, index,
                              [from_item_type(new_item, source) EXCEPT
                                  !.state = IF addhere THEN "AddHere" ELSE "NoState"]),
                    pl, "Ok", <<>>)

\* Queue::insert
insert(its, pl, index, new_item, source, addhere) ==
    IF InsertRefused(its, index)
    THEN Result(its, pl, "OutOfBounds", <<index, Len(its)>>)
    ELSE IF addhere
         THEN Result(VecInsert(ClearAnchors(its), index,
                               [from_item_type(new_item, source) EXCEPT !.state = "AddHere"]),
                     pl, "Ok", <<>>)
         ELSE Result(VecInsert(its, index, from_item_type(new_item, source)),
                     pl, "Ok", <<>>)

\* Queue::clear
clear(its, pl) == Result(<<>>, pl, "Unit", <<>>)

\* Queue::clear_played
clear_played(its, pl) == Result(its, <<>>, "Unit", <<>>)

\* Queue::clear_all
clear_all(its, pl) == Result(<<>>, <<>>, "Unit", <<>>)

\* A faulty variant of Retain: entries are kept when their payload matches.
Retain_ByPayload(s, i) == SelectSeq(s, LAMBDA x : x.item = i.item)

\* Vec::retain(|item| *item == i)
Retain(s, i) == SelectSeq(s, LAMBDA x : x = i)

\* Queue::clear_except
clear_except(its, pl, index) ==
    LET empty == its = <<>>
    IN  IF ~empty /\ index < Len(its)
        THEN Result(SetState(Retain(its, its[index + 1]), 0, "AddHere"), pl, "Ok", <<>>)
        ELSE IF empty THEN Result(its, pl, "EmptyQueue", <<>>)
        ELSE Result(its, pl, "OutOfBounds", <<index, Len(its)>>)

-----------------------------------------------------------------------------
(* Navigation and history.                                                 *)

\* The hand-over of move_to's loop: the anchor passes to the second entry
\* when the front entry holds it.
PassAnchor(its) ==
    IF its[1].state = "AddHere" /\ HasIndex(its, 1)
    THEN SetState(its, 1, "AddHere")
    ELSE its

RECURSIVE MoveLoop_Drops(_, _, _)
\* A faulty variant of MoveLoop: the entry removed is not pushed to played.
MoveLoop_Drops(its, pl, target) ==
    IF its = <<>> THEN Result(its, pl, "Panic", <<>>)
    ELSE IF its[1].item # target
         THEN MoveLoop_Drops(VecRemove(PassAnchor(its), 0), pl, target)
         ELSE Result(its, pl, "Ok", <<>>)

RECURSIVE MoveLoop_OneMore(_, _, _)
\* A faulty variant of MoveLoop: the entry that matches the target is moved
\* to played as well.
MoveLoop_OneMore(its, pl, target) ==
    IF its = <<>> THEN Result(its, pl, "Panic", <<>>)
    ELSE LET passed == PassAnchor(its)
         IN  IF its[1].item # target
             THEN MoveLoop_OneMore(VecRemove(passed, 0), Append(pl, passed[1]), target)
             ELSE Result(VecRemove(passed, 0), Append(pl, passed[1]), "Ok", <<>>)

RECURSIVE MoveLoop(_, _, _)
\* The loop of move_to.  `self.items[0]` is read before `empty` is tested,
\* so an empty vector panics there and the inner EmptyQueue is never returned.
MoveLoop(its, pl, target) ==
    IF its = <<>> THEN Result(its, pl, "Panic", <<>>)
    ELSE IF its[1].item # target
         THEN LET passed == PassAnchor(its)
              IN  MoveLoop(VecRemove(passed, 0), Append(pl, passed[1]), target)
         ELSE Result(its, pl, "Ok", <<>>)

RECURSIVE MoveLoop_Full(_, _, _)
\* The loop of move_to_FullMatch: the front entry is compared with the whole
\* target entry.
MoveLoop_Full(its, pl, to_item) ==
    IF its = <<>> THEN Result(its, pl, "Panic", <<>>)
    ELSE IF its[1] # to_item
         THEN LET passed == PassAnchor(its)
              IN  MoveLoop_Full(VecRemove(passed, 0), Append(pl, passed[1]), to_item)
         ELSE Result(its, pl, "Ok", <<>>)

\* A faulty variant of move_to: the loop compares whole entries (payload,
\* state, source and by_human) instead of payloads.
move_to_FullMatch(its, pl, index) ==
    IF its = <<>> THEN Result(its, pl, "EmptyQueue", <<>>)
    ELSE IF index < Len(its)
         THEN LET to_item == its[index + 1]
              IN  IF to_item.item.kind = "Multi" THEN Result(its, pl, "Panic", <<>>)
                  ELSE MoveLoop_Full(its, pl, to_item)
         ELSE Result(its, pl, "EmptyQueue", <<>>)

\* Queue::move_to
move_to(its, pl, index) ==
    IF its = <<>> THEN Result(its, pl, "EmptyQueue", <<>>)
    ELSE IF index < Len(its)
         THEN LET to_item == its[index + 1]
              IN  IF to_item.item.kind = "Multi" THEN Result(its, pl, "Panic", <<>>)
                  ELSE MoveLoop(its, pl, to_item.item)
         ELSE Result(its, pl, "EmptyQueue", <<>>)

\* Queue::swap (Vec::swap panics on an index out of range)
swap(its, pl, a, b) ==
    IF ~HasIndex(its, a) \/ ~HasIndex(its, b) THEN Result(its, pl, "Panic", <<>>)
    ELSE Result([its EXCEPT ![a + 1] = its[b + 1], ![b + 1] = its[a + 1]],
                pl, "Unit", <<>>)

\* Queue::move_item
move_item(its, pl, from, to) ==
    IF ~HasIndex(its, from) THEN Result(its, pl, "Panic", <<>>)
    ELSE LET item == its[from + 1]
             taken == IF from # to THEN VecRemove(its, from) ELSE its
         IN  IF to > Len(taken) THEN Result(taken, pl, "Panic", <<>>)
             ELSE Result(VecInsert(taken, to, item), pl, "Unit", <<>>)

\* The condition under which next rolls the anchor forward.
\* A faulty variant of RollsForward: a queue without an anchor does not roll.
RollsForward_FrontOnly(its) == its[1].state = "AddHere"

RollsForward(its) == its[1].state = "AddHere" \/ ~has_addhere(its)

\* The state changes of next when the anchor rolls forward.
RollForward(its) ==
    LET reset == SetState(its, 0, "NoState")
    IN  IF HasIndex(reset, 1) THEN SetState(reset, 1, "AddHere") ELSE reset

\* Queue::next
next(its, pl, lp) ==
    IF its = <<>>
    THEN IF lp THEN Result(its, pl, "Panic", <<>>)
         ELSE Result(its, pl, "EmptyQueue", <<>>)
    ELSE IF RollsForward(its) /\ its[1].item.kind = "Multi"
         THEN Result(its, pl, "Panic", <<>>)
         ELSE LET rolled == IF RollsForward(its) THEN RollForward(its) ELSE its
                  rest == VecRemove(rolled, 0)
                  hist == Append(pl, rolled[1])
              IN  IF rest = <<>> THEN Result(rest, hist, "NoNext", <<>>)
                  ELSE Result(rest, hist, "Ok", <<rest[1]>>)

\* Queue::prev.  The entry popped from played is dropped when the call
\* panics; `self.items[0]` panics when items is empty.
prev(its, pl, lp) ==
    IF pl = <<>> THEN Result(its, pl, "EmptyPlayed", <<>>)
    ELSE LET item == pl[Len(pl)]
             popped == SubSeq(pl, 1, Len(pl) - 1)
         IN  IF item.state = "First" /\ lp THEN Result(its, popped, "Panic", <<>>)
             ELSE IF its = <<>> THEN Result(its, popped, "Panic", <<>>)
             ELSE IF its[1].item.kind = "Multi" THEN Result(its, popped, "Panic", <<>>)
             ELSE IF item.item.kind = "Multi" THEN Result(its, popped, "Panic", <<>>)
             ELSE Result(VecInsert(its, 0, item), popped, "Ok", <<item>>)

\* Queue::current
current(its, pl) ==
    IF its # <<>>
    THEN IF its[1].item.kind = "Multi" THEN Result(its, pl, "Panic", <<>>)
         ELSE Result(its, pl, "Ok", <<its[1]>>)
    ELSE Result(its, pl, "EmptyQueue", <<>>)

RECURSIVE Evict_Newest(_, _)
\* A faulty variant of Evict: the newest entry is removed instead of the oldest.
Evict_Newest(pl, limit) ==
    IF Len(pl) > limit THEN Evict_Newest(VecRemove(pl, Len(pl) - 1), limit) ELSE pl

RECURSIVE Evict(_, _)
\* The loop of check_played.
Evict(pl, limit) ==
    IF Len(pl) > limit THEN Evict(VecRemove(pl, 0), limit) ELSE pl

\* Queue::check_played
check_played(its, pl, limit) == Result(its, Evict(pl, limit), "Unit", <<>>)

-----------------------------------------------------------------------------
(* The state machine: one action per public method.                        *)

\* The arguments of a call; a field a method does not take keeps its default.
NoArgs ==
    [index |-> 0, to |-> 0, batch |-> <<>>, source |-> "Some",
     by_human |-> FALSE, addhere |-> FALSE, limit |-> 0]

\* The call record when no call is recorded.
NoRet == [tag |-> "Unit", val |-> <<>>]

\* Queue::default(); no call has been made.  No method assigns loop_, so it
\* keeps the value it is constructed with.
Init ==
    /\ items = <<>>
    /\ played = <<>>
    /\ loop_ = FALSE
    /\ op = "idle"
    /\ args = NoArgs
    /\ ret = NoRet
    /\ pre_items = <<>>
    /\ pre_played = <<>>

\* A call of method `name` with arguments `a` whose outcome is `r`: the whole
\* method runs in one step, and the step records the call.  Calls are made
\* from position "idle" (the guard of every action below).
Call(name, a, r) ==
    /\ items' = r.items
    /\ played' = r.played
    /\ ret' = r.ret
    /\ op' = name
    /\ args' = a
    /\ pre_items' = items
    /\ pre_played' = played
    /\ UNCHANGED loop_

\* The caller takes the result of the call and is free to call again.  A call
\* that panicked does not return.
Return ==
    /\ op # "idle"
    /\ ret.tag # "Panic"
    /\ op' = "idle"
    /\ args' = NoArgs
    /\ ret' = NoRet
    /\ pre_items' = <<>>
    /\ pre_played' = <<>>
    /\ UNCHANGED <<items, played, loop_>>

\* Entries held by the queue, in items and in played.
Held == Len(items) + Len(played)

\* The batches a caller hands over: every sequence of payloads up to MaxBatch.
Batches == UNION {[1..n -> QueueItemType] : n \in 0..MaxBatch}

AddItem ==
    /\ op = "idle"
    /\ Held + 1 <= MaxLen
    /\ \E item \in QueueItemType, source \in Sources, by_human \in BOOLEAN :
        Call("add_item",
             [NoArgs EXCEPT !.batch = <<item>>, !.source = source, !.by_human = by_human],
             add_item(items, played, item, source, by_human))

AddItemNext ==
    /\ op = "idle"
    /\ Held + 1 <= MaxLen
    /\ \E item \in QueueItemType, source \in Sources :
        Call("add_item_next",
             [NoArgs EXCEPT !.batch = <<item>>, !.source = source],
             add_item_next(items, played, item, source))

AddMulti ==
    /\ op = "idle"
    /\ \E batch \in Batches, source \in Sources, by_human \in BOOLEAN :
        /\ Held + Len(batch) <= MaxLen
        /\ Call("add_multi",
                [NoArgs EXCEPT !.batch = batch, !.source = source, !.by_human = by_human],
                add_multi(items, played, batch, source, by_human))

AddMultiNext ==
    /\ op = "idle"
    /\ \E batch \in Batches, source \in Sources :
        /\ Held + Len(batch) <= MaxLen
        /\ Call("add_multi_next",
                [NoArgs EXCEPT !.batch = batch, !.source = source],
                add_multi_next(items, played, batch, source))

RemoveItem ==
    /\ op = "idle"
    /\ \E index \in 0..(Len(items) + 1) :
        Call("remove_item", [NoArgs EXCEPT !.index = index],
             remove_item(items, played, index))

Insert ==
    /\ op = "idle"
    /\ Held + 1 <= MaxLen
    /\ \E index \in 0..(Len(items) + 1), item \in QueueItemType,
          source \in Sources, addhere \in BOOLEAN :
        Call("insert",
             [NoArgs EXCEPT !.index = index, !.batch = <<item>>,
                            !.source = source, !.addhere = addhere],
             insert(items, played, index, item, source, addhere))

Clear ==
    /\ op = "idle"
    /\ Call("clear", NoArgs, clear(items, played))

ClearPlayed ==
    /\ op = "idle"
    /\ Call("clear_played", NoArgs, clear_played(items, played))

ClearAll ==
    /\ op = "idle"
    /\ Call("clear_all", NoArgs, clear_all(items, played))

ClearExcept ==
    /\ op = "idle"
    /\ \E index \in 0..(Len(items) + 1) :
        Call("clear_except", [NoArgs EXCEPT !.index = index],
             clear_except(items, played, index))

MoveTo ==
    /\ op = "idle"
    /\ \E index \in 0..(Len(items) + 1) :
        Call("move_to", [NoArgs EXCEPT !.index = index],
             move_to(items, played, index))

\* The callers of swap and move_item pass indices of existing entries.
Swap ==
    /\ op = "idle"
    /\ \E a \in 0..(Len(items) - 1), b \in 0..(Len(items) - 1) :
        Call("swap", [NoArgs EXCEPT !.index = a, !.to = b],
             swap(items, played, a, b))

MoveItem ==
    /\ op = "idle"
    /\ \E from \in 0..(Len(items) - 1), to \in 0..(Len(items) - 1) :
        /\ from = to => Held + 1 <= MaxLen
        /\ Call("move_item", [NoArgs EXCEPT !.index = from, !.to = to],
                move_item(items, played, from, to))

NextItem ==
    /\ op = "idle"
    /\ Call("next", NoArgs, next(items, played, loop_))

PrevItem ==
    /\ op = "idle"
    /\ Call("prev", NoArgs, prev(items, played, loop_))

Current ==
    /\ op = "idle"
    /\ Call("current", NoArgs, current(items, played))

CheckPlayed ==
    /\ op = "idle"
    /\ \E limit \in 0..MaxLimit :
        Call("check_played", [NoArgs EXCEPT !.limit = limit],
             check_played(items, played, limit))

Next ==
    \/ AddItem
    \/ AddItemNext
    \/ AddMulti
    \/ AddMultiNext
    \/ RemoveItem
    \/ Insert
    \/ Clear
    \/ ClearPlayed
    \/ ClearAll
    \/ ClearExcept
    \/ MoveTo
    \/ Swap
    \/ MoveItem
    \/ NextItem
    \/ PrevItem
    \/ Current
    \/ CheckPlayed
    \/ Return

Spec == Init /\ [][Next]_vars

\* The enqueue operations alone, from the empty queue: add_item,
\* add_item_next, add_multi and add_multi_next with a non-empty batch, insert.
NextEnqueue ==
    \/ AddItem
    \/ AddItemNext
    \/ AddMulti /\ args'.batch # <<>>
    \/ AddMultiNext /\ args'.batch # <<>>
    \/ Insert
    \/ Return

SpecEnqueue == Init /\ [][NextEnqueue]_vars

-----------------------------------------------------------------------------
(* Vocabulary of the properties.                                           *)

\* The 1-based positions of the AddHere entries of a sequence.
Anchors(its) == {k \in 1..Len(its) : its[k].state = "AddHere"}

AllSingle(its) == \A k \in 1..Len(its) : its[k].item.kind = "Single"

\* An entry but for its state.
SameButState(x, y) ==
    x.item = y.item /\ x.source = y.source /\ x.by_human = y.by_human

Min(a, b) == IF a <= b THEN a ELSE b

\* The methods that return a Result, and the error kinds.
Fallible ==
    {"remove_item", "insert", "clear_except", "move_to", "next", "prev", "current"}

ErrorKinds == {"EmptyQueue", "EmptyPlayed", "NoNext", "OutOfBounds"}

-----------------------------------------------------------------------------
(* C1.  Anchor uniqueness under enqueue.                                   *)

\* C1: starting from the empty queue, after any sequence of enqueue
\* operations (add_item, add_item_next, add_multi and add_multi_next with
\* non-empty batches, insert), at most one entry of items has state AddHere.
\* Stated under SpecEnqueue, whose only calls are those operations.
C1_AnchorUniqueUnderEnqueue == Cardinality(Anchors(items)) <= 1

-----------------------------------------------------------------------------
(* C2.  Round trip of next / prev.                                         *)

RECURSIVE NextTimes(_, _, _)
\* n calls of next in a row on the queue left by r; a panic ends the run.
NextTimes(r, lp, n) ==
    IF n = 0 \/ r.ret.tag = "Panic" THEN r
    ELSE NextTimes(next(r.items, r.played, lp), lp, n - 1)

RECURSIVE PrevTimes(_, _, _)
\* n calls of prev in a row on the queue left by r; a panic ends the run.
PrevTimes(r, lp, n) ==
    IF n = 0 \/ r.ret.tag = "Panic" THEN r
    ELSE PrevTimes(prev(r.items, r.played, lp), lp, n - 1)

\* n calls of next followed by n calls of prev, from the current queue.
NextThenPrev(n) ==
    PrevTimes(NextTimes(Result(items, played, "Unit", <<>>), loop_, n), loop_, n)

\* C2: for a queue of Single items and any n, n calls of next() followed by
\* n calls of prev() restore items to its original sequence, every entry
\* with its state, source and by_human.  Stated for the queues that hold at
\* most one anchor and the runs in which no call panics, so that what it
\* reports is the restored sequence itself.
C2_NextPrevRoundTrip ==
    \A n \in 0..MaxLen :
        ( /\ AllSingle(items)
          /\ Cardinality(Anchors(items)) <= 1
          /\ NextThenPrev(n).ret.tag # "Panic" )
            => NextThenPrev(n).items = items

-----------------------------------------------------------------------------
(* C3.  Error atomicity.                                                   *)

\* C3, as claimed: whenever a fallible operation returns an error value,
\* items and played are equal to their values before the call.
C3_ErrorAtomicity ==
    (op \in Fallible /\ ret.tag \in ErrorKinds)
        => (items = pre_items /\ played = pre_played)

\* C3, amended: whenever a fallible operation returns an error value other
\* than NoNext, items and played are equal to their values before the call;
\* next() returns NoNext after moving the only entry of items to the end of
\* played.
C3_ErrorAtomicityButNoNext ==
    /\ (op \in Fallible /\ ret.tag \in ErrorKinds \ {"NoNext"})
           => (items = pre_items /\ played = pre_played)
    /\ ret.tag = "NoNext"
           => /\ op = "next"
              /\ Len(pre_items) = 1
              /\ items = <<>>
              /\ Len(played) = Len(pre_played) + 1
              /\ SubSeq(played, 1, Len(pre_played)) = pre_played
              /\ SameButState(played[Len(played)], pre_items[1])

\* An error return on a queue with pending entries and history.
C3_Witness ==
    /\ op = "clear_except"
    /\ ret.tag = "OutOfBounds"
    /\ Len(items) >= 2
    /\ played # <<>>

-----------------------------------------------------------------------------
(* C4.  prev() whenever history is non-empty.                              *)

\* C4: with played non-empty and no Multi item involved (the entry restored
\* and the front of items, if any), prev() removes the last entry of played,
\* inserts it at index 0 of items and returns it, also when items is empty;
\* prev() returns EmptyPlayed exactly when played is empty, and then leaves
\* both sequences unchanged.
C4_PrevDefined ==
    op = "prev" =>
        /\ (ret.tag = "EmptyPlayed") <=> (pre_played = <<>>)
        /\ ret.tag = "EmptyPlayed" => (items = pre_items /\ played = pre_played)
        /\ ( /\ pre_played # <<>>
             /\ pre_played[Len(pre_played)].item.kind = "Single"
             /\ (pre_items # <<>> => pre_items[1].item.kind = "Single") )
           => /\ ret.tag = "Ok"
              /\ ret.val = <<pre_played[Len(pre_played)]>>
              /\ played = SubSeq(pre_played, 1, Len(pre_played) - 1)
              /\ items = <<pre_played[Len(pre_played)]>> \o pre_items

-----------------------------------------------------------------------------
(* C5.  add_multi_next keeps the batch order.                              *)

\* C5: after add_multi_next(batch) with a non-empty batch x1..xn, the batch
\* occupies the contiguous positions from index 1 (index 0 if the queue was
\* empty) in the order x1..xn; among the inserted entries only xn may have
\* state AddHere, and xn has it when an anchor transfer is due (the queue was
\* empty, had no entry at index 1, or held no anchor).
C5_AddMultiNextOrder ==
    (op = "add_multi_next" /\ args.batch # <<>>) =>
        LET first == IF pre_items = <<>> THEN 0 ELSE 1
            n == Len(args.batch)
        IN  /\ ret.tag = "Unit"
            /\ Len(items) = Len(pre_items) + n
            /\ \A k \in 1..n :
                /\ items[first + k].item = args.batch[k]
                /\ items[first + k].state = "AddHere" => k = n
            /\ ( \/ pre_items = <<>>
                 \/ Len(pre_items) = 1
                 \/ Anchors(pre_items) = {} )
               => items[first + n].state = "AddHere"

-----------------------------------------------------------------------------
(* C6.  add_multi equals repeated add_item.                                *)

RECURSIVE AddItems(_, _, _, _)
\* add_item(x1), ..., add_item(xn) in that order.
AddItems(its, batch, source, by_human) ==
    IF batch = <<>> THEN its
    ELSE AddItems(add_item(its, <<>>, Head(batch), source, by_human).items,
                  Tail(batch), source, by_human)

\* C6: for every queue and every non-empty batch x1..xn, add_multi leaves
\* exactly the items that add_item(x1), ..., add_item(xn) leave: the batch
\* is contiguous in caller order right after the previous anchor (at index 1
\* of a non-empty queue without anchor, at index 0 of an empty queue) and
\* only xn has state AddHere.
C6_AddMultiIsRepeatedAddItem ==
    (op = "add_multi" /\ args.batch # <<>>) =>
        LET n == Len(args.batch)
        IN  /\ ret.tag = "Unit"
            /\ played = pre_played
            /\ items = AddItems(pre_items, args.batch, args.source, args.by_human)
            /\ \E at \in 0..Len(pre_items) :
                /\ pre_items = <<>> => at = 0
                /\ pre_items # <<>> => at >= 1
                /\ (pre_items # <<>> /\ Anchors(pre_items) = {}) => at = 1
                /\ Anchors(pre_items) # {} => at \in Anchors(pre_items)
                /\ Len(items) = Len(pre_items) + n
                /\ \A k \in 1..n :
                    items[at + k] =
                        QueueItem(args.batch[k], IF k = n THEN "AddHere" ELSE "NoState",
                                  args.source, args.by_human)
                /\ \A k \in 1..at :
                    SameButState(items[k], pre_items[k]) /\ items[k].state # "AddHere"
                /\ \A k \in (at + 1)..Len(pre_items) :
                    /\ SameButState(items[k + n], pre_items[k])
                    /\ items[k + n].state # "AddHere"

\* A batch of two different payloads added to a queue that has an anchor.
C6_Witness ==
    /\ op = "add_multi"
    /\ Len(args.batch) >= 2
    /\ args.batch[1] # args.batch[2]
    /\ Anchors(pre_items) # {}

-----------------------------------------------------------------------------
(* C7.  next() and group items.                                            *)

\* C7: whenever the front entry of items is a Multi item, next() aborts and
\* does not move that entry into played, whatever the front entry's state and
\* wherever the anchor is.
C7_NextRefusesGroup ==
    (op = "next" /\ pre_items # <<>> /\ pre_items[1].item.kind = "Multi")
        => (ret.tag = "Panic" /\ played = pre_played /\ items = pre_items)

-----------------------------------------------------------------------------
(* C8.  add_item.                                                          *)

\* C8: for every queue (zero, one or several AddHere entries), after
\* add_item exactly one entry of items has state AddHere and it is the new
\* item; the new item sits right after the former anchor (the last one when
\* there are several; index 1 if a non-empty queue had no anchor, index 0 if
\* the queue was empty); items grows by exactly one and the pre-existing
\* entries keep their relative order.
C8_AddItem ==
    op = "add_item" =>
        LET new == QueueItem(args.batch[1], "AddHere", args.source, args.by_human)
            at == IF pre_items = <<>> THEN 0
                  ELSE IF Anchors(pre_items) = {} THEN 1
                  ELSE CHOOSE k \in Anchors(pre_items) :
                           \A j \in Anchors(pre_items) : j <= k
        IN  /\ ret.tag = "Unit"
            /\ played = pre_played
            /\ Len(items) = Len(pre_items) + 1
            /\ items[at + 1] = new
            /\ Anchors(items) = {at + 1}
            /\ \A k \in 1..at : SameButState(items[k], pre_items[k])
            /\ \A k \in (at + 1)..Len(pre_items) : SameButState(items[k + 1], pre_items[k])

\* add_item on a queue that holds two anchors.
C8_Witness ==
    /\ op = "add_item"
    /\ Cardinality(Anchors(pre_items)) = 2

-----------------------------------------------------------------------------
(* C9.  Length conservation.                                               *)

\* C9: every add_item, add_item_next and successful insert increases
\* items.len() by exactly one and leaves played unchanged; every successful
\* next() and every successful move_to leaves items.len() + played.len()
\* unchanged.
C9_LengthConservation ==
    /\ (op \in {"add_item", "add_item_next"} \/ (op = "insert" /\ ret.tag = "Ok"))
           => (Len(items) = Len(pre_items) + 1 /\ played = pre_played)
    /\ (op \in {"next", "move_to"} /\ ret.tag = "Ok")
           => Len(items) + Len(played) = Len(pre_items) + Len(pre_played)

\* A move_to that moved two entries into history.
C9_Witness ==
    /\ op = "move_to"
    /\ ret.tag = "Ok"
    /\ Len(pre_items) = Len(items) + 2

-----------------------------------------------------------------------------
(* C10.  History bound.                                                    *)

\* C10: after check_played(limit), played.len() <= limit and played is the
\* last min(limit, old length) entries of the old played in their order;
\* items is unchanged.
C10_HistoryBound ==
    op = "check_played" =>
        LET kept == Min(args.limit, Len(pre_played))
        IN  /\ Len(played) <= args.limit
            /\ played = SubSeq(pre_played, Len(pre_played) - kept + 1, Len(pre_played))
            /\ items = pre_items

\* A check_played that evicts two entries and keeps one.
C10_Witness ==
    /\ op = "check_played"
    /\ args.limit >= 1
    /\ Len(pre_played) >= args.limit + 2

-----------------------------------------------------------------------------
(* C11.  add_item_next.                                                    *)

\* C11: add_item_next inserts the new item at index 1 (index 0 if the queue
\* was empty) with by_human = true; its state is AddHere iff the queue was
\* empty, or had no entry at index 1, or contained no AddHere entry, and
\* NoState otherwise; every pre-existing entry is left as it was.
C11_AddItemNext ==
    op = "add_item_next" =>
        LET at == IF pre_items = <<>> THEN 0 ELSE 1
            anchor == \/ pre_items = <<>>
                      \/ Len(pre_items) < 2
                      \/ Anchors(pre_items) = {}
        IN  /\ ret.tag = "Unit"
            /\ played = pre_played
            /\ Len(items) = Len(pre_items) + 1
            /\ items[at + 1] =
                   QueueItem(args.batch[1], IF anchor THEN "AddHere" ELSE "NoState",
                             args.source, TRUE)
            /\ \A k \in 1..at : items[k] = pre_items[k]
            /\ \A k \in (at + 1)..Len(pre_items) : items[k + 1] = pre_items[k]

\* add_item_next on a queue of two or more entries that has no anchor.
C11_Witness ==
    /\ op = "add_item_next"
    /\ Len(pre_items) >= 2
    /\ Anchors(pre_items) = {}

-----------------------------------------------------------------------------
(* C12.  Positional insert.                                                *)

\* C12: insert(index, ..) succeeds iff index <= items.len() and otherwise
\* returns OutOfBounds{index, len} with items unchanged; on success the new
\* item is at position index with by_human = false; with addhere = true the
\* new item is the only entry with state AddHere afterwards, and with
\* addhere = false the new item has state NoState and no pre-existing entry
\* changes state.
C12_Insert ==
    op = "insert" =>
        /\ (ret.tag = "Ok") <=> (args.index <= Len(pre_items))
        /\ played = pre_played
        /\ ret.tag # "Ok" =>
              /\ ret = [tag |-> "OutOfBounds", val |-> <<args.index, Len(pre_items)>>]
              /\ items = pre_items
        /\ ret.tag = "Ok" =>
              /\ Len(items) = Len(pre_items) + 1
              /\ SameButState(items[args.index + 1],
                              QueueItem(args.batch[1], "NoState", args.source, FALSE))
              /\ \A k \in 1..args.index : SameButState(items[k], pre_items[k])
              /\ \A k \in (args.index + 1)..Len(pre_items) :
                     SameButState(items[k + 1], pre_items[k])
              /\ args.addhere => Anchors(items) = {args.index + 1}
              /\ ~args.addhere =>
                    /\ items[args.index + 1].state = "NoState"
                    /\ \A k \in 1..args.index : items[k].state = pre_items[k].state
                    /\ \A k \in (args.index + 1)..Len(pre_items) :
                           items[k + 1].state = pre_items[k].state

\* An insert at the end of a queue that holds an anchor, taking the anchor.
C12_Witness ==
    /\ op = "insert"
    /\ ret.tag = "Ok"
    /\ args.addhere
    /\ args.index = Len(pre_items)
    /\ Anchors(pre_items) # {}

-----------------------------------------------------------------------------
(* C13.  Out-of-range removal.                                             *)

\* C13: for every queue of length len (len = 0 included) and every
\* index >= len, remove_item(index) returns EmptyQueue and leaves items and
\* played unchanged; for every index < len it succeeds and returns the entry
\* that was at that index.
C13_RemoveItem ==
    op = "remove_item" =>
        /\ args.index >= Len(pre_items) =>
              /\ ret = [tag |-> "EmptyQueue", val |-> <<>>]
              /\ items = pre_items
              /\ played = pre_played
        /\ args.index < Len(pre_items) =>
              /\ ret = [tag |-> "Ok", val |-> <<pre_items[args.index + 1]>>]
              /\ Len(items) = Len(pre_items) - 1

\* remove_item(len) on a non-empty queue.
C13_Witness ==
    /\ op = "remove_item"
    /\ pre_items # <<>>
    /\ args.index = Len(pre_items)

-----------------------------------------------------------------------------
(* C14.  clear_except.                                                     *)

\* C14: clear_except(index) returns EmptyQueue when items is empty and
\* OutOfBounds when items is non-empty and index >= items.len(), leaving
\* items unchanged in both cases; otherwise items afterwards consists of
\* exactly the entries that were value-equal (payload, state, source,
\* by_human) to the entry at index, in their original order, with the first
\* of them set to state AddHere; played is unchanged.
C14_ClearExcept ==
    op = "clear_except" =>
        /\ played = pre_played
        /\ pre_items = <<>> => (ret.tag = "EmptyQueue" /\ items = pre_items)
        /\ (pre_items # <<>> /\ args.index >= Len(pre_items)) =>
              /\ ret = [tag |-> "OutOfBounds", val |-> <<args.index, Len(pre_items)>>]
              /\ items = pre_items
        /\ args.index < Len(pre_items) =>
              LET target == pre_items[args.index + 1]
                  same == {k \in 1..Len(pre_items) : pre_items[k] = target}
              IN  /\ ret.tag = "Ok"
                  /\ Len(items) = Cardinality(same)
                  /\ items[1] = [target EXCEPT !.state = "AddHere"]
                  /\ \A k \in 2..Len(items) : items[k] = target

\* clear_except that keeps two equal NoState entries and drops a third entry.
C14_Witness ==
    /\ op = "clear_except"
    /\ ret.tag = "Ok"
    /\ Len(pre_items) = 3
    /\ Len(items) = 2
    /\ pre_items[args.index + 1].state = "NoState"

-----------------------------------------------------------------------------
(* C15.  Navigation and anchor uniqueness.                                 *)

\* The outcomes of one navigation call (next, prev, or move_to of an
\* existing index) on the queue left by r; a call that panicked is not
\* followed by another.
NavStep(r, lp) ==
    IF r.ret.tag = "Panic" THEN {}
    ELSE {next(r.items, r.played, lp), prev(r.items, r.played, lp)}
         \cup {move_to(r.items, r.played, i) : i \in 0..(Len(r.items) - 1)}

RECURSIVE NavReach(_, _, _)
\* The outcomes of at most n navigation calls in a row.
NavReach(r, lp, n) ==
    IF n = 0 THEN {r}
    ELSE {r} \cup UNION {NavReach(q, lp, n - 1) : q \in NavStep(r, lp)}

\* C15: from any state in which items has at most one AddHere entry and
\* played has none, after any sequence of next(), prev() and move_to() calls
\* on Single items, items still has at most one AddHere entry.  Stated for
\* the sequences of at most MaxLen calls from the current queue.
C15_NavigationKeepsOneAnchor ==
    ( /\ Cardinality(Anchors(items)) <= 1
      /\ Anchors(played) = {}
      /\ AllSingle(items)
      /\ AllSingle(played) )
        => \A r \in NavReach(Result(items, played, "Unit", <<>>), loop_, MaxLen) :
               Cardinality(Anchors(r.items)) <= 1

-----------------------------------------------------------------------------
(* C16.  Reordering.                                                       *)

\* How many entries of s are equal to x.
Count(s, x) == Cardinality({k \in 1..Len(s) : s[k] = x})

\* s and t hold the same entries, each as many times.
SameEntries(s, t) ==
    /\ Len(s) = Len(t)
    /\ \A k \in 1..Len(s) : Count(s, s[k]) = Count(t, s[k])

\* C16: for all valid indices (from == to included), swap(a, b) and
\* move_item(from, to) leave items with the same length and the same
\* multiset of entries, hence the same number of AddHere entries; after
\* move_item the entry formerly at from is at index to.
C16_ReorderIsPermutation ==
    ( /\ op \in {"swap", "move_item"}
      /\ args.index < Len(pre_items)
      /\ args.to < Len(pre_items) )
        => /\ ret.tag = "Unit"
           /\ SameEntries(items, pre_items)
           /\ Cardinality(Anchors(items)) = Cardinality(Anchors(pre_items))
           /\ op = "move_item" => items[args.to + 1] = pre_items[args.index + 1]

-----------------------------------------------------------------------------
(* C17.  Removal and the anchor.                                           *)

\* C17: if items holds exactly one AddHere entry before a successful
\* remove_item(index) and at least one entry remains afterwards, then items
\* holds exactly one AddHere entry afterwards, whether or not the removed
\* entry was the anchor and whether or not a following entry exists.
C17_RemoveKeepsAnchor ==
    ( /\ op = "remove_item"
      /\ ret.tag = "Ok"
      /\ Cardinality(Anchors(pre_items)) = 1
      /\ items # <<>> )
        => Cardinality(Anchors(items)) = 1

-----------------------------------------------------------------------------
(* C18.  What move_to matches.                                             *)

\* The number of entries the last call moved from items to played.
Popped == Len(played) - Len(pre_played)

\* C18, as claimed: move_to(index) pops front entries into played until the
\* front entry is equal to the targeted entry in payload, state, source and
\* by_human, so an earlier entry that has the target's payload but another
\* state, source or by_human is popped and does not stop the traversal.
C18_MoveToMatchesByValue ==
    (op = "move_to" /\ ret.tag = "Ok") =>
        LET target == pre_items[args.index + 1]
        IN  /\ pre_items[Popped + 1] = target
            /\ \A k \in 1..args.index :
                   (pre_items[k].item = target.item /\ pre_items[k] # target)
                       => Popped >= k

\* C18, amended: move_to(index) pops front entries into played until the
\* front entry has the payload of the targeted entry: it stops at the first
\* entry with that payload, whatever that entry's state, source and
\* by_human, and pops every entry before it.
C18_MoveToMatchesByPayload ==
    (op = "move_to" /\ ret.tag = "Ok") =>
        LET target == pre_items[args.index + 1]
        IN  /\ Popped \in 0..args.index
            /\ pre_items[Popped + 1].item = target.item
            /\ \A k \in 1..Popped : pre_items[k].item # target.item
            /\ Len(items) = Len(pre_items) - Popped
            /\ \A k \in 1..Popped :
                   SameButState(played[Len(pre_played) + k], pre_items[k])
            /\ \A k \in 1..Len(items) : SameButState(items[k], pre_items[Popped + k])

\* A move_to that pops an entry and then stops before its target, at an
\* entry with the target's payload that is not equal to the target.
C18_Witness ==
    /\ op = "move_to"
    /\ ret.tag = "Ok"
    /\ Popped >= 1
    /\ Popped < args.index
    /\ pre_items[Popped + 1] # pre_items[args.index + 1]

-----------------------------------------------------------------------------
(* C19.  move_to terminates and conserves the order of the payloads.       *)

\* The payloads of a sequence of entries, in order.
Payloads(s) == [k \in 1..Len(s) |-> s[k].item]

\* C19: on an empty queue or with index >= items.len(), move_to returns
\* EmptyQueue and changes nothing; on a non-empty queue with an index in
\* range whose target is a Single item, it returns Ok after at most index
\* pops, leaves items non-empty with the target's payload at the front, and
\* the payloads of played ++ items are the same before and after.
C19_MoveToTerminates ==
    op = "move_to" =>
        IF pre_items = <<>> \/ args.index >= Len(pre_items)
        THEN /\ ret.tag = "EmptyQueue"
             /\ items = pre_items
             /\ played = pre_played
        ELSE LET target == pre_items[args.index + 1]
             IN  target.item.kind = "Single" =>
                     /\ ret.tag = "Ok"
                     /\ Popped \in 0..args.index
                     /\ items # <<>>
                     /\ items[1].item = target.item
                     /\ Payloads(played \o items) = Payloads(pre_played \o pre_items)

\* A move_to that popped two entries on its way to a Single target.
C19_Witness ==
    /\ op = "move_to"
    /\ ret.tag = "Ok"
    /\ pre_items[args.index + 1].item.kind = "Single"
    /\ Popped = 2

-----------------------------------------------------------------------------
(* C20.  The anchor rolls forward with playback.                           *)

\* C20: in next(), if the front entry is the anchor or items has no AddHere
\* entry, the entry moved to played has state NoState and the new front (if
\* any) has state AddHere; otherwise no entry changes state.  Whenever
\* next() returns Ok, items has at least one AddHere entry, and exactly one
\* if it had at most one before the call.
C20_AnchorRollsForward ==
    (op = "next" /\ pre_items # <<>>) =>
        LET frontIsAnchor == pre_items[1].state = "AddHere"
            noAnchor      == Anchors(pre_items) = {}
        IN  /\ ((frontIsAnchor \/ noAnchor) /\ Popped = 1) =>
                   /\ played[Len(played)].state = "NoState"
                   /\ SameButState(played[Len(played)], pre_items[1])
                   /\ items # <<>> => items[1].state = "AddHere"
                   /\ Len(items) = Len(pre_items) - 1
                   /\ \A k \in 1..Len(items) : SameButState(items[k], pre_items[k + 1])
                   /\ \A k \in 2..Len(items) : items[k] = pre_items[k + 1]
            /\ ~(frontIsAnchor \/ noAnchor) =>
                   /\ Popped = 1
                   /\ played[Len(played)] = pre_items[1]
                   /\ items = Tail(pre_items)
            /\ ret.tag = "Ok" =>
                   /\ Anchors(items) # {}
                   /\ Cardinality(Anchors(pre_items)) <= 1
                          => Cardinality(Anchors(items)) = 1

\* A next() that returned Ok on a queue that had no anchor.
C20_Witness ==
    /\ op = "next"
    /\ ret.tag = "Ok"
    /\ pre_items # <<>>
    /\ Anchors(pre_items) = {}

=============================================================================
